---- MODULE Spec2Model ----
(***************************************************************************)
(* Model of src/ovpn.py: the patch() pipeline of the OpenVPN-AS patch      *)
(* utility.  The filesystem is abstracted to the three places the code     *)
(* touches: EGG_DIR (the directory holding the source/live archive),       *)
(* BACKUP_DIR and the temporary workspace created by tempfile.mkdtemp.     *)
(* In the code the archive found by find_source_egg() is also the deploy   *)
(* target: SOURCE_EGG is read at lines 71 and 150 and written at line 156. *)
(***************************************************************************)
EXTENDS Integers, Sequences, FiniteSets, TLC

\* ---------------------------------------------------------------- bounds
MaxRuns == 2
MaxTicks == 3

\* Resolution of the model clock: nowTicks counts half seconds, the
\* timestamp of line 147 keeps whole seconds only.
TicksPerSecond == 2

\* ------------------------------------------------------- file contents
\* Every file content is a record of one shape.  kind "zip" is a valid
\* archive (or, for the workspace, an extracted tree) whose entries are
\*   pyc  = pyovpn/lic/uprop.pyc     pyc2 = pyovpn/lic/uprop2.pyc
\*   py   = pyovpn/lic/uprop.py      rest = all other entries
\* kind "corrupt" is a file that is not a readable zip, kind "dir" a
\* directory entry whose name matches the pattern, "plain" any other file.
File(k, a, b, c, r) == [kind |-> k, pyc |-> a, pyc2 |-> b, py |-> c, rest |-> r]

Absent == File("absent", "absent", "absent", "absent", "none")

Corrupt == File("corrupt", "absent", "absent", "absent", "none")

DirEntry == File("dir", "absent", "absent", "absent", "none")

PlainFile == File("plain", "absent", "absent", "absent", "none")

OrigEgg == File("zip", "orig", "absent", "absent", "r1")

NoModuleEgg == File("zip", "absent", "absent", "absent", "r1")

\* An archive that ships the source uprop.py next to the compiled module.
SourceShippedEgg == File("zip", "orig", "absent", "orig_src", "r1")

InitEggContents == {OrigEgg, NoModuleEgg, SourceShippedEgg, Corrupt, DirEntry}

\* ------------------------------------------------------------ EGG_DIR
EggNames == {"pyovpn-1.2.3.egg", "pyovpn-1.2.4.egg"}

OtherNames == {"notes.txt"}

\* EGG_PATTERN = "pyovpn-*.egg" (line 20), tabulated over the names used.
MatchesPattern(n) == n \in EggNames

RECURSIVE NamesOf(_)
NamesOf(dir) ==
    IF dir = <<>> THEN {} ELSE {Head(dir).name} \cup NamesOf(Tail(dir))

RECURSIVE Lookup(_, _)
Lookup(dir, n) ==
    IF dir = <<>> THEN Absent
    ELSE IF Head(dir).name = n THEN Head(dir).content
    ELSE Lookup(Tail(dir), n)

\* open(path, "wb") + write: replaces the content of an existing entry in
\* place, creates a new entry otherwise.
WriteFile(dir, n, c) ==
    IF n \in NamesOf(dir)
    THEN [i \in 1..Len(dir) |->
            IF dir[i].name = n THEN [name |-> n, content |-> c] ELSE dir[i]]
    ELSE Append(dir, [name |-> n, content |-> c])

RemoveFile(dir, n) == SelectSeq(dir, LAMBDA e : e.name # n)

\* EGG_DIR.glob(EGG_PATTERN): the matching entries in listing order.
Glob(dir) == SelectSeq(dir, LAMBDA e : MatchesPattern(e.name))

\* find_source_egg() returning egg_files[-1] instead of egg_files[0].
FindSourceEggLast(dir) ==
    IF Glob(dir) = <<>> THEN "None" ELSE Glob(dir)[Len(Glob(dir))].name

\* find_source_egg(): None when nothing matches, else the first match.
FindSourceEggFirstOrDefault(dir) ==
    IF Glob(dir) = <<>> THEN "pyovpn-1.2.3.egg" ELSE Glob(dir)[1].name

FindSourceEgg(dir) ==
    IF Glob(dir) = <<>> THEN "None" ELSE Glob(dir)[1].name

\* Lines 47-48: the warning logs the whole list egg_files when it holds
\* more than one path, and nothing is logged otherwise.
MultipleEggsWarning(dir) ==
    IF Len(Glob(dir)) > 1
    THEN [i \in 1..Len(Glob(dir)) |-> Glob(dir)[i].name]
    ELSE <<>>

\* Path.is_file()
IsFile(c) == c.kind \in {"zip", "corrupt", "plain"}

\* --------------------------------------------------------- timestamps
\* The clock when the model starts, in seconds since 1970-01-01T00:00:00Z:
\* 2024-03-05T10:07:21Z.
ClockStart == 1709633241

\* datetime.now(timezone.utc): the sub-second part plays no role below.
UtcNow(t) == ClockStart + (t \div TicksPerSecond)

\* Proleptic Gregorian date of a day number counted from 1970-01-01.
CivilFromDays(days) ==
    LET z == days + 719468
        era == z \div 146097
        doe == z - era * 146097
        yoe == (doe - doe \div 1460 + doe \div 36524 - doe \div 146096) \div 365
        doy == doe - (365 * yoe + yoe \div 4 - yoe \div 100)
        mp == (5 * doy + 2) \div 153
        m == IF mp < 10 THEN mp + 3 ELSE mp - 9
    IN [year |-> yoe + era * 400 + (IF m <= 2 THEN 1 ELSE 0),
        month |-> m,
        day |-> doy - (153 * mp + 2) \div 5 + 1]

DateTimeUtc(secs) ==
    [date |-> CivilFromDays(secs \div 86400),
     hour |-> (secs % 86400) \div 3600,
     minute |-> (secs % 3600) \div 60,
     second |-> secs % 60]

\* Zero-padded decimal fields, as %Y %m %d %H %M %S print them.
Digits2(n) == <<(n \div 10) % 10, n % 10>>

Digits4(n) == Digits2(n \div 100) \o Digits2(n % 100)

\* strftime(TIMESTAMP_FORMAT) with TIMESTAMP_FORMAT = "%Y%m%d-%H%M" (minutes).
StrftimeMinutes(dt) ==
    <<Digits4(dt.date.year) \o Digits2(dt.date.month) \o Digits2(dt.date.day),
      "-",
      Digits2(dt.hour) \o Digits2(dt.minute)>>

\* strftime(TIMESTAMP_FORMAT), TIMESTAMP_FORMAT = "%Y%m%d-%H%M%S" (line 23):
\* the digits of the date, the hyphen, the digits of the time.
Strftime(dt) ==
    <<Digits4(dt.date.year) \o Digits2(dt.date.month) \o Digits2(dt.date.day),
      "-",
      Digits2(dt.hour) \o Digits2(dt.minute) \o Digits2(dt.second)>>

\* Line 147.
Timestamp(t) == Strftime(DateTimeUtc(UtcNow(t)))

\* Line 148: f"{SOURCE_EGG.name}.bak-{timestamp}", kept as its parts.
BackupPath(name, t) == <<name, ".bak-">> \o Timestamp(t)

\* ------------------------------------------------------------- state
VARIABLES
    debug,            \* DEBUG_MODE
    eggDir,           \* EGG_DIR: sequence of [name, content] in listing order
    backupDirExists,  \* BACKUP_DIR is an existing directory
    backups,          \* BACKUP_DIR: backup path -> content
    nowTicks,         \* wall clock
    pc,               \* position of patch()
    SOURCE_EGG,       \* local of patch()
    ws,               \* temp_dir: [created, exists, egg, tree]
    exc,              \* exception in flight
    outcome,          \* "none" | "Done" | "Aborted" | "Raised"
    reason,           \* abort reason / exception that left patch()
    runs,             \* number of runs started
    trace,            \* steps executed by the current run, in order
    failed,           \* step of the current run that failed, or "none"
    eggDir0,          \* EGG_DIR as the current run found it
    backups0,         \* BACKUP_DIR as the current run found it
    live0,            \* live archive as left by everything but this run
    liveAtBackup,     \* live archive content seen by the Backup step
    backupKey,        \* backup path written by the current run
    input,            \* archive content the current run copied at line 71
    returncode,       \* result.returncode of line 124, -1 before the compiler ran
    warning,          \* candidates named by the warning of line 48, in order
    interruptedAt,    \* position at which Ctrl-C hit the current run
    figCall           \* last call of uprop.UsageProperties.figure by the host

vars == <<debug, eggDir, backupDirExists, backups, nowTicks, pc, SOURCE_EGG,
          ws, exc, outcome, reason, runs, trace, failed, eggDir0, backups0,
          live0, liveAtBackup, backupKey, input, returncode, warning,
          interruptedAt, figCall>>

env == <<debug, backupDirExists>>

\* What only LocateSource, Interrupt and the host's call change.
extra == <<warning, interruptedAt, figCall>>

NoCall == [status |-> "none", ret |-> <<>>, out |-> <<>>]

ghost0 == <<eggDir0, backups0>>

NoWs == [created |-> FALSE, exists |-> FALSE, egg |-> Absent, tree |-> Absent]

NoKey == <<"none", "", <<>>, "", <<>>>>

Live == Lookup(eggDir, SOURCE_EGG)

\* Directories the program can start from: at most two entries with
\* distinct names.
Entry(n, c) == [name |-> n, content |-> c]

InitEntries ==
    {Entry(n, c) : n \in EggNames, c \in InitEggContents}
        \cup {Entry(n, PlainFile) : n \in OtherNames}

InitDirs ==
    {<<>>} \cup {<<e>> : e \in InitEntries}
           \cup {d \in {<<e, f>> : e \in InitEntries, f \in InitEntries} :
                    d[1].name # d[2].name}

Init ==
    /\ debug \in BOOLEAN
    /\ eggDir \in InitDirs
    /\ backupDirExists \in BOOLEAN
    /\ backups = <<>>
    /\ nowTicks = 0
    /\ pc = "Idle"
    /\ SOURCE_EGG = "None"
    /\ ws = NoWs
    /\ exc = "none"
    /\ outcome = "none"
    /\ reason = "none"
    /\ runs = 0
    /\ trace = <<>>
    /\ failed = "none"
    /\ eggDir0 = eggDir
    /\ backups0 = backups
    /\ live0 = Absent
    /\ liveAtBackup = Absent
    /\ backupKey = NoKey
    /\ input = Absent
    /\ returncode = -1
    /\ warning = <<>>
    /\ interruptedAt = "none"
    /\ figCall = NoCall

\* ----------------------------------------------------- exception flow
\* Exceptions a step can raise.  "KeyboardInterrupt" is a BaseException:
\* none of the except clauses of lines 159-167 catches it.
StepFaults == {"PermissionError", "OSError"}

IsException(e) ==
    e \in {"PermissionError", "BadZipFile", "SubprocessError", "OSError",
           "FileNotFoundError"}

\* The except clauses of lines 159-167, in order.
ExceptReason(e) ==
    CASE e = "PermissionError" -> "PermissionDenied"
      [] e = "BadZipFile" -> "CorruptArchive"
      [] e = "SubprocessError" -> "SubprocessError"
      [] OTHER -> "UnexpectedError"

\* A step inside the try block raises e: control goes to the except clauses.
Raise(step, e) ==
    /\ exc' = e
    /\ failed' = step
    /\ pc' = "Except"
    /\ UNCHANGED <<outcome, reason>>

\* A `return` inside the try block: the finally clause runs next.
ReturnAborted(step, why) ==
    /\ outcome' = "Aborted"
    /\ reason' = why
    /\ failed' = step
    /\ pc' = "Finally"
    /\ UNCHANGED exc

Goto(next) ==
    /\ pc' = next
    /\ UNCHANGED <<exc, outcome, reason, failed>>

\* ------------------------------------------------------------- actions
\* main() line 202: action() calls patch().
StartRun ==
    /\ pc \in {"Idle", "Returned"}
    /\ runs < MaxRuns
    /\ runs' = runs + 1
    /\ pc' = "LocateSource"
    /\ SOURCE_EGG' = "None"
    /\ ws' = NoWs
    /\ exc' = "none"
    /\ outcome' = "none"
    /\ reason' = "none"
    /\ trace' = <<>>
    /\ failed' = "none"
    /\ eggDir0' = eggDir
    /\ backups0' = backups
    /\ live0' = Absent
    /\ liveAtBackup' = Absent
    /\ backupKey' = NoKey
    /\ input' = Absent
    /\ returncode' = -1
    /\ warning' = <<>>
    /\ interruptedAt' = "none"
    /\ figCall' = NoCall
    /\ UNCHANGED <<env, eggDir, backups, nowTicks>>

\* Lines 55-63: find_source_egg() and the is_file() check, both before the
\* try block; each `return` leaves patch() directly.
LocateSource ==
    /\ pc = "LocateSource"
    /\ trace' = Append(trace, "LocateSource")
    /\ warning' = MultipleEggsWarning(eggDir)
    /\ LET src == FindSourceEgg(eggDir) IN
         IF src = "None"
         THEN /\ outcome' = "Aborted"
              /\ reason' = "SourceNotFound"
              /\ failed' = "LocateSource"
              /\ pc' = "Returned"
              /\ UNCHANGED <<SOURCE_EGG, live0>>
         ELSE IF ~IsFile(Lookup(eggDir, src))
         THEN /\ outcome' = "Aborted"
              /\ reason' = "SourceNotAFile"
              /\ failed' = "LocateSource"
              /\ pc' = "Returned"
              /\ SOURCE_EGG' = src
              /\ live0' = Lookup(eggDir, src)
         ELSE /\ SOURCE_EGG' = src
              /\ live0' = Lookup(eggDir, src)
              /\ pc' = "AcquireWorkspace"
              /\ UNCHANGED <<outcome, reason, failed>>
    /\ UNCHANGED <<env, interruptedAt, figCall, eggDir, backups, nowTicks, ws,
                   exc, runs, ghost0, liveAtBackup, backupKey, input,
                   returncode>>

\* Line 66: tempfile.mkdtemp(), executed before the try block of line 67 is
\* entered, so an exception raised here leaves patch().
AcquireWorkspace ==
    /\ pc = "AcquireWorkspace"
    /\ trace' = Append(trace, "AcquireWorkspace")
    /\ \/ /\ ws' = [created |-> TRUE, exists |-> TRUE, egg |-> Absent, tree |-> Absent]
          /\ Goto("EnterTry")
       \/ \E e \in StepFaults :
            /\ outcome' = "Raised"
            /\ reason' = e
            /\ exc' = e
            /\ failed' = "AcquireWorkspace"
            /\ pc' = "Returned"
            /\ UNCHANGED ws
    /\ UNCHANGED <<env, extra, eggDir, backups, nowTicks, SOURCE_EGG, runs, ghost0,
                   live0, liveAtBackup, backupKey, input, returncode>>

\* Line 67: control enters the try statement.  Between the return of
\* mkdtemp and this point the finally clause does not yet guard anything.
EnterTry ==
    /\ pc = "EnterTry"
    /\ Goto("CopyToWorkspace")
    /\ UNCHANGED <<env, extra, eggDir, backups, nowTicks, SOURCE_EGG, runs,
                   ghost0, live0, liveAtBackup, backupKey, input, returncode,
                   ws, trace>>

\* What the body of the try block leaves alone unless a step says otherwise.
outside == <<env, extra, eggDir, backups, nowTicks, SOURCE_EGG, runs, ghost0, live0,
             liveAtBackup, backupKey>>

observed == <<input, returncode>>

\* Lines 68-72 with dest_egg placed next to SOURCE_EGG instead of inside
\* temp_dir.
CopyBesideSource ==
    /\ pc = "CopyToWorkspace"
    /\ trace' = Append(trace, "CopyToWorkspace")
    /\ \/ /\ Live.kind = "absent"
          /\ Raise("CopyToWorkspace", "FileNotFoundError")
          /\ UNCHANGED <<ws, input, eggDir>>
       \/ /\ Live.kind # "absent"
          /\ ws' = [ws EXCEPT !.egg = Live]
          /\ eggDir' = WriteFile(eggDir, "pyovpn.egg.tmp", Live)
          /\ input' = Live
          /\ Goto("Extract")
       \/ \E e \in StepFaults :
            /\ Raise("CopyToWorkspace", e)
            /\ UNCHANGED <<ws, input, eggDir>>
    /\ UNCHANGED <<env, extra, backups, nowTicks, SOURCE_EGG, runs, ghost0,
                   live0, liveAtBackup, backupKey, returncode>>

\* Lines 68-72: shutil.copy2(SOURCE_EGG, dest_egg).
CopyToWorkspace ==
    /\ pc = "CopyToWorkspace"
    /\ trace' = Append(trace, "CopyToWorkspace")
    /\ \/ /\ Live.kind = "absent"
          /\ Raise("CopyToWorkspace", "FileNotFoundError")
          /\ UNCHANGED <<ws, input>>
       \/ /\ Live.kind # "absent"
          /\ ws' = [ws EXCEPT !.egg = Live]
          /\ input' = Live
          /\ Goto("Extract")
       \/ \E e \in StepFaults :
            /\ Raise("CopyToWorkspace", e)
            /\ UNCHANGED <<ws, input>>
    /\ UNCHANGED <<outside, returncode>>

\* Lines 74-79: extract_dir.mkdir(), zipfile.ZipFile(dest_egg).extractall().
Extract ==
    /\ pc = "Extract"
    /\ trace' = Append(trace, "Extract")
    /\ \/ /\ ws.egg.kind # "zip"
          /\ Raise("Extract", "BadZipFile")
          /\ UNCHANGED ws
       \/ /\ ws.egg.kind = "zip"
          /\ ws' = [ws EXCEPT !.tree = ws.egg]
          /\ Goto("RenameModule")
       \/ \E e \in StepFaults :
            /\ Raise("Extract", e)
            /\ UNCHANGED ws
    /\ UNCHANGED <<outside, observed>>

\* ------------------------------------------------------ Module Patcher
\* Lines 83-88 on a POSIX filesystem: Path.rename() replaces an existing
\* uprop2.pyc without complaint.
RenamePyc(tree) == [tree EXCEPT !.pyc2 = tree.pyc, !.pyc = "absent"]

\* Lines 81-89.
RenameModule ==
    /\ pc = "RenameModule"
    /\ trace' = Append(trace, "RenameModule")
    /\ \/ /\ ws.tree.pyc = "absent"
          /\ ReturnAborted("RenameModule", "MissingModule")
          /\ UNCHANGED ws
       \/ /\ ws.tree.pyc # "absent"
          /\ ws' = [ws EXCEPT !.tree = RenamePyc(ws.tree)]
          /\ Goto("WriteFacade")
       \/ \E e \in StepFaults :
            /\ Raise("RenameModule", e)
            /\ UNCHANGED ws
    /\ UNCHANGED <<outside, observed>>

\* Lines 91-115: new_py.write_text(<facade source>).
WriteFacade ==
    /\ pc = "WriteFacade"
    /\ trace' = Append(trace, "WriteFacade")
    /\ \/ /\ ws' = [ws EXCEPT !.tree.py = "facade_src"]
          /\ Goto("Compile")
       \/ \E e \in StepFaults :
            /\ Raise("WriteFacade", e)
            /\ UNCHANGED ws
    /\ UNCHANGED <<outside, observed>>

\* python3 -m compileall -b uprop.py: the bytecode of the source given.
CompileSource(py) == IF py = "facade_src" THEN "facade" ELSE "absent"

\* What the external compiler did: its exit code and whether it wrote
\* uprop.pyc.  Exit code and files are the only interface to it.
CompilerRuns == [returncode : {0, 1}, wrote : BOOLEAN]

\* Lines 124-129: the check of result.returncode.
CompilerFailedNever(r) == FALSE

CompilerFailed(r) == r.returncode # 0

\* Lines 117-129: subprocess.run(...) and the returncode check.  An OSError
\* is raised when python3 cannot be started.
Compile ==
    /\ pc = "Compile"
    /\ trace' = Append(trace, "Compile")
    /\ \/ \E r \in CompilerRuns :
            /\ returncode' = r.returncode
            /\ ws' = IF r.wrote
                     THEN [ws EXCEPT !.tree.pyc = CompileSource(ws.tree.py)]
                     ELSE ws
            /\ IF CompilerFailed(r)
               THEN ReturnAborted("Compile", "CompilationError")
               ELSE Goto("VerifyArtifact")
       \/ \E e \in StepFaults :
            /\ Raise("Compile", e)
            /\ UNCHANGED <<ws, returncode>>
    /\ UNCHANGED <<outside, input>>

\* Lines 131-135 left out altogether: nothing looks for uprop.pyc.
VerifyArtifactSkipped ==
    /\ pc = "VerifyArtifact"
    /\ trace' = Append(trace, "VerifyArtifact")
    /\ Goto("CleanupIntermediate")
    /\ UNCHANGED ws
    /\ UNCHANGED <<outside, observed>>

\* Lines 131-135 with the `return` of line 135 left out.
VerifyArtifactNoReturn ==
    /\ pc = "VerifyArtifact"
    /\ trace' = Append(trace, "VerifyArtifact")
    /\ failed' = IF ws.tree.pyc = "absent" THEN "VerifyArtifact" ELSE failed
    /\ pc' = "CleanupIntermediate"
    /\ UNCHANGED <<exc, outcome, reason, ws>>
    /\ UNCHANGED <<outside, observed>>

\* Lines 131-135: pyc_file.exists().
VerifyArtifact ==
    /\ pc = "VerifyArtifact"
    /\ trace' = Append(trace, "VerifyArtifact")
    /\ IF ws.tree.pyc = "absent"
       THEN ReturnAborted("VerifyArtifact", "CompilationError")
       ELSE Goto("CleanupIntermediate")
    /\ UNCHANGED ws
    /\ UNCHANGED <<outside, observed>>

\* Lines 136-138 without the unlink of line 137.
KeepIntermediate ==
    /\ pc = "CleanupIntermediate"
    /\ trace' = Append(trace, "CleanupIntermediate")
    /\ Goto("Repack")
    /\ UNCHANGED ws
    /\ UNCHANGED <<outside, observed>>

\* Lines 136-138: new_py.unlink(missing_ok=True) unless DEBUG_MODE.
CleanupIntermediate ==
    /\ pc = "CleanupIntermediate"
    /\ trace' = Append(trace, "CleanupIntermediate")
    /\ \/ /\ ws' = IF debug THEN ws ELSE [ws EXCEPT !.tree.py = "absent"]
          /\ Goto("Repack")
       \/ \E e \in StepFaults :
            /\ ~debug
            /\ Raise("CleanupIntermediate", e)
            /\ UNCHANGED ws
    /\ UNCHANGED <<outside, observed>>

\* Lines 140-144 with the archive opened at SOURCE_EGG instead of dest_egg.
RepackInPlace ==
    /\ pc = "Repack"
    /\ trace' = Append(trace, "Repack")
    /\ eggDir' = WriteFile(eggDir, SOURCE_EGG, ws.tree)
    /\ Goto("Backup")
    /\ UNCHANGED <<env, extra, backups, nowTicks, SOURCE_EGG, runs, ghost0, live0,
                   liveAtBackup, backupKey, ws, observed>>

\* Lines 140-144: ZipFile(dest_egg, "w") truncates the copy, then every
\* entry of the extracted tree is written.  A failure part-way leaves a
\* truncated archive in the workspace.
Repack ==
    /\ pc = "Repack"
    /\ trace' = Append(trace, "Repack")
    /\ \/ /\ ws' = [ws EXCEPT !.egg = ws.tree]
          /\ Goto("Backup")
       \/ \E e \in StepFaults :
            /\ Raise("Repack", e)
            /\ ws' = [ws EXCEPT !.egg = Corrupt]
    /\ UNCHANGED <<outside, observed>>

\* -------------------------------------------------- Deployment Manager
\* shutil.copy2(SOURCE_EGG, backup_path) raises FileNotFoundError when the
\* source is missing and also when the directory of the destination is.
BackupNotFound == Live.kind = "absent" \/ ~backupDirExists

\* Lines 146-153.  The copy opens backup_path for writing, so an existing
\* file of that name is replaced; an OSError part-way leaves a truncated
\* file.  FileNotFoundError is caught at line 152 and the run goes on.
Backup ==
    /\ pc = "Backup"
    /\ trace' = Append(trace, "Backup")
    /\ liveAtBackup' = Live
    /\ LET backup_path == BackupPath(SOURCE_EGG, nowTicks) IN
         \/ /\ BackupNotFound
            /\ Goto("Deploy")
            /\ UNCHANGED <<backups, backupKey>>
         \/ /\ ~BackupNotFound
            /\ backups' = (backup_path :> Live) @@ backups
            /\ backupKey' = backup_path
            /\ Goto("Deploy")
         \/ /\ ~BackupNotFound
            /\ Raise("Backup", "PermissionError")
            /\ UNCHANGED <<backups, backupKey>>
         \/ /\ ~BackupNotFound
            /\ Raise("Backup", "OSError")
            /\ backups' = (backup_path :> Corrupt) @@ backups
            /\ backupKey' = backup_path
    /\ UNCHANGED <<env, extra, eggDir, nowTicks, SOURCE_EGG, runs, ghost0, live0, ws,
                   observed>>

\* Lines 155-157: shutil.copy2(dest_egg, SOURCE_EGG).  A copy, not a rename:
\* an OSError part-way leaves a truncated live archive.
Deploy ==
    /\ pc = "Deploy"
    /\ trace' = Append(trace, "Deploy")
    /\ \/ /\ eggDir' = WriteFile(eggDir, SOURCE_EGG, ws.egg)
          /\ outcome' = "Done"
          /\ pc' = "Finally"
          /\ UNCHANGED <<exc, reason, failed>>
       \/ /\ Raise("Deploy", "PermissionError")
          /\ UNCHANGED eggDir
       \/ /\ Raise("Deploy", "OSError")
          /\ eggDir' = WriteFile(eggDir, SOURCE_EGG, Corrupt)
    /\ UNCHANGED <<env, extra, backups, nowTicks, SOURCE_EGG, runs, ghost0, live0,
                   liveAtBackup, backupKey, ws, observed>>

\* ------------------------------------------------ Pipeline Orchestrator
\* Lines 159-167 with a handler that copies the backup back over the live
\* archive when Deploy has failed.
ExceptWithRollback ==
    /\ pc = "Except"
    /\ IF IsException(exc)
       THEN /\ outcome' = "Aborted"
            /\ reason' = ExceptReason(exc)
            /\ exc' = "none"
       ELSE UNCHANGED <<outcome, reason, exc>>
    /\ eggDir' = IF failed = "Deploy" /\ backupKey \in DOMAIN backups
                 THEN WriteFile(eggDir, SOURCE_EGG, backups[backupKey])
                 ELSE eggDir
    /\ pc' = "Finally"
    /\ UNCHANGED <<env, extra, backups, nowTicks, SOURCE_EGG, runs, ghost0,
                   live0, liveAtBackup, backupKey, observed, ws, trace, failed>>

\* Lines 159-167: every subclass of Exception is caught and logged; a
\* BaseException stays in flight.
Except ==
    /\ pc = "Except"
    /\ IF IsException(exc)
       THEN /\ outcome' = "Aborted"
            /\ reason' = ExceptReason(exc)
            /\ exc' = "none"
       ELSE UNCHANGED <<outcome, reason, exc>>
    /\ pc' = "Finally"
    /\ UNCHANGED <<outside, observed, ws, trace, failed>>

\* shutil.rmtree(temp_dir, ignore_errors=True) on a directory the process
\* created itself (mode 0700) and filled itself.
Rmtree(w) == [w EXCEPT !.exists = FALSE, !.egg = Absent, !.tree = Absent]

\* Lines 169-171 moved to the end of the try block: reached on success only.
ReleaseOnSuccessOnly(w) ==
    IF ~debug /\ w.exists /\ outcome = "Done" THEN Rmtree(w) ELSE w

\* Lines 169-171 without the DEBUG_MODE test.
ReleaseAlways(w) == IF w.exists THEN Rmtree(w) ELSE w

\* Line 169: if not DEBUG_MODE and temp_dir.exists().
Release(w) == IF ~debug /\ w.exists THEN Rmtree(w) ELSE w

\* Lines 168-171, then patch() returns or the exception in flight leaves it.
Finally ==
    /\ pc = "Finally"
    /\ ws' = Release(ws)
    /\ IF exc # "none"
       THEN /\ outcome' = "Raised"
            /\ reason' = exc
       ELSE UNCHANGED <<outcome, reason>>
    /\ pc' = "Returned"
    /\ UNCHANGED <<outside, observed, exc, trace, failed>>

TryBody == {"CopyToWorkspace", "Extract", "RenameModule", "WriteFacade",
            "Compile", "VerifyArtifact", "CleanupIntermediate", "Repack",
            "Backup", "Deploy"}

\* Ctrl-C once mkdtemp has returned: KeyboardInterrupt is raised at the
\* current position.  Inside the try block it passes the except clauses and
\* the finally clause runs; at line 67, before the try statement is
\* entered, it leaves patch() at once.  Either way it ends in the handler of
\* lines 209-211.
Interrupt ==
    /\ pc \in TryBody \cup {"EnterTry"}
    /\ interruptedAt' = pc
    /\ exc' = "KeyboardInterrupt"
    /\ IF pc = "EnterTry"
       THEN /\ outcome' = "Raised"
            /\ reason' = "KeyboardInterrupt"
            /\ pc' = "Returned"
       ELSE /\ pc' = "Except"
            /\ UNCHANGED <<outcome, reason>>
    /\ UNCHANGED <<env, warning, figCall, eggDir, backups, nowTicks, SOURCE_EGG,
                   runs, ghost0, live0, liveAtBackup, backupKey, observed, ws,
                   trace, failed>>

\* ------------------------------------------------------- environment
\* The clock is read at line 147 only, so it is enough to let time pass
\* right before that line.
Tick ==
    /\ pc = "Backup"
    /\ nowTicks < MaxTicks
    /\ nowTicks' = nowTicks + 1
    /\ UNCHANGED <<env, extra, eggDir, backups, pc, SOURCE_EGG, ws, exc, outcome,
                   reason, runs, trace, failed, ghost0, live0, liveAtBackup,
                   backupKey, observed>>

\* patch() takes no lock: something else may remove the live archive while
\* a run is between line 66 and line 156.
ExternalRemoveLive ==
    /\ pc \in TryBody
    /\ Live.kind # "absent"
    /\ eggDir' = RemoveFile(eggDir, SOURCE_EGG)
    /\ live0' = Absent
    /\ UNCHANGED <<env, extra, backups, nowTicks, pc, SOURCE_EGG, ws, exc, outcome,
                   reason, runs, trace, failed, ghost0, liveAtBackup,
                   backupKey, observed>>

\* ------------------------------------------------- import of the facade
\* What `import pyovpn.lic.<m>` yields in a tree: whether the import works,
\* whether the module binds UsageProperties, and how many times new_figure
\* wraps the original figure (0: the original itself, -1: no figure).
\* `loading` is the set of modules being imported (sys.modules entries that
\* are only partly initialised): the facade stored as uprop2.pyc runs
\* `from pyovpn.lic import uprop2` and gets itself back, with no
\* UsageProperties bound yet.
ModuleAt(tree, m) == IF m = "uprop" THEN tree.pyc ELSE tree.pyc2

ImportFailed == [status |-> "ImportError", hasUsageProperties |-> FALSE, wraps |-> -1]

NoUsageProperties == [status |-> "ok", hasUsageProperties |-> FALSE, wraps |-> -1]

RECURSIVE ImportModule(_, _, _)
ImportModule(tree, m, loading) ==
    IF m \in loading THEN NoUsageProperties
    ELSE IF ModuleAt(tree, m) = "absent" THEN ImportFailed
    ELSE IF ModuleAt(tree, m) = "orig"
    THEN [status |-> "ok", hasUsageProperties |-> TRUE, wraps |-> 0]
    ELSE \* the facade of lines 96-110
         LET uprop2 == ImportModule(tree, "uprop2", loading \cup {m}) IN
           IF uprop2.status # "ok" THEN ImportFailed
           ELSE IF uprop2.hasUsageProperties
           THEN [status |-> "ok", hasUsageProperties |-> TRUE,
                 wraps |-> uprop2.wraps + 1]
           ELSE NoUsageProperties

\* uprop.UsageProperties.figure as seen by the host importing the facade.
ResolveFigure(tree) == ImportModule(tree, "uprop", {})

\* -------------------------------------------------------- the facade
\* Line 102: the value new_figure forces.
ConcurrentConnections == 200

LicKeys == {"concurrent_connections", "max_users"}

LicValues == {2, 200}

\* The mappings the original figure may return: any of the keys present.
OrigReturns == UNION {[D -> LicValues] : D \in SUBSET LicKeys}

\* Lines 100-103 with setdefault in place of the assignment of line 102.
NewFigureSetDefault(ret) ==
    [k \in DOMAIN ret \cup {"concurrent_connections"} |->
        IF k \in DOMAIN ret THEN ret[k] ELSE ConcurrentConnections]

\* Lines 100-103: new_figure, applied to what old_figure returned.
NewFigure(ret) ==
    [k \in DOMAIN ret \cup {"concurrent_connections"} |->
        IF k = "concurrent_connections" THEN ConcurrentConnections ELSE ret[k]]

RECURSIVE ApplyWraps(_, _)
ApplyWraps(ret, n) == IF n <= 0 THEN ret ELSE NewFigure(ApplyWraps(ret, n - 1))

\* The host loads the live archive after a successful run, imports
\* pyovpn.lic.uprop and calls UsageProperties.figure; the original
\* implementation answers with some mapping.
CallFigure ==
    /\ pc = "Returned"
    /\ outcome = "Done"
    /\ figCall.status = "none"
    /\ Live.kind = "zip"
    /\ \E ret \in OrigReturns :
         LET uprop == ResolveFigure(Live) IN
           figCall' =
             IF uprop.status # "ok"
             THEN [status |-> "ImportError", ret |-> ret, out |-> <<>>]
             ELSE IF ~uprop.hasUsageProperties
             THEN [status |-> "AttributeError", ret |-> ret, out |-> <<>>]
             ELSE [status |-> "ok", ret |-> ret, out |-> ApplyWraps(ret, uprop.wraps)]
    /\ UNCHANGED <<env, warning, interruptedAt, eggDir, backups, nowTicks, pc,
                   SOURCE_EGG, ws, exc, outcome, reason, runs, trace, failed,
                   ghost0, live0, liveAtBackup, backupKey, observed>>

Next ==
    \/ StartRun
    \/ LocateSource
    \/ AcquireWorkspace
    \/ EnterTry
    \/ CopyToWorkspace
    \/ Extract
    \/ RenameModule
    \/ WriteFacade
    \/ Compile
    \/ VerifyArtifact
    \/ CleanupIntermediate
    \/ Repack
    \/ Backup
    \/ Deploy
    \/ Except
    \/ Finally
    \/ Interrupt
    \/ Tick
    \/ ExternalRemoveLive
    \/ CallFigure

Spec == Init /\ [][Next]_vars

\* ------------------------------------------------------------ helpers
Steps(t) == {t[i] : i \in 1..Len(t)}

StepOrder == <<"LocateSource", "AcquireWorkspace", "CopyToWorkspace",
               "Extract", "RenameModule", "WriteFacade", "Compile",
               "VerifyArtifact", "CleanupIntermediate", "Repack", "Backup",
               "Deploy">>

IsPrefix(t, u) == Len(t) <= Len(u) /\ \A i \in 1..Len(t) : t[i] = u[i]

\* ---------------------------------------------------------------- C1
\* C1: once the external compiler has exited with a non-zero code, the live
\* archive and the backup directory stay as the run found them: the run
\* executes neither Backup nor Deploy and writes no backup file.
C1_CompileFailureLeavesLiveAndBackups ==
    returncode > 0 =>
        /\ Live = live0
        /\ backups = backups0
        /\ backupKey = NoKey
        /\ Steps(trace) \cap {"Backup", "Deploy"} = {}
        /\ pc \in {"Finally", "Returned"}
        /\ outcome = "Aborted"

C1_Witness ==
    /\ pc = "Returned"
    /\ returncode > 0
    /\ reason = "CompilationError"
    /\ ws.created
    /\ Live = OrigEgg

\* ---------------------------------------------------------------- C2
\* C2: with DEBUG_MODE off, whenever patch() has ended after acquiring a
\* workspace (Done, Aborted for any reason, or left by an exception of a
\* step), the workspace directory no longer exists.  An interrupt between
\* line 66 and line 67 is not an exit path of a step; C17 covers it.
C2_WorkspaceRemovedOnEveryExit ==
    (pc = "Returned" /\ ~debug /\ ws.created /\ interruptedAt # "EnterTry")
        => ~ws.exists

C2_Witness ==
    /\ pc = "Returned"
    /\ ~debug
    /\ ws.created
    /\ ~ws.exists
    /\ outcome = "Raised"
    /\ Len(trace) >= 4

\* ---------------------------------------------------------------- C3
\* C3: whenever a pipeline step has failed, patch() returns normally with a
\* terminal outcome (Aborted): the failure does not leave patch() as an
\* exception.
C3_NoStepFailurePropagates ==
    (pc = "Returned" /\ failed # "none") => outcome = "Aborted"

\* An archive produced by an earlier successful run on an original archive.
AlreadyPatched(c) == c.kind = "zip" /\ c.pyc = "facade" /\ c.pyc2 = "orig"

\* ---------------------------------------------------------------- C4
\* C4: a run whose source is an already-patched archive and that ends Done
\* leaves the original implementation at the alias uprop2, and the facade
\* uprop of the deployed tree resolves UsageProperties.figure to one wrap
\* of the true original.
C4_SecondRunKeepsOriginal ==
    (pc = "Returned" /\ outcome = "Done" /\ AlreadyPatched(input)) =>
        /\ Live.pyc2 = "orig"
        /\ ResolveFigure(Live).status = "ok"
        /\ ResolveFigure(Live).hasUsageProperties
        /\ ResolveFigure(Live).wraps = 1

\* ---------------------------------------------------------------- C5
\* C5: every backup file that earlier runs left in the backup directory is
\* still there with the same content, whatever the current run has done.
C5_BackupNeverOverwritten ==
    \A k \in DOMAIN backups0 : k \in DOMAIN backups /\ backups[k] = backups0[k]

\* ---------------------------------------------------------------- C6
\* C6: a run that executes Deploy after a Backup step that saw the live
\* archive present has written a backup file holding that content.
C6_BackupSkippedOnlyWhenLiveAbsent ==
    ("Deploy" \in Steps(trace) /\ liveAtBackup.kind # "absent") =>
        /\ backupKey \in DOMAIN backups
        /\ backups[backupKey] = liveAtBackup

\* ---------------------------------------------------------------- C7
\* C7: a run started while no live archive exists (first-time install)
\* skips the backup, deploys the patched archive and ends Done.
C7_FirstInstallDeploys ==
    (pc = "Returned" /\ Glob(eggDir0) = <<>>) =>
        /\ outcome = "Done"
        /\ "Deploy" \in Steps(trace)
        /\ backupKey = NoKey

\* ---------------------------------------------------------------- C8
\* C8: the steps a run has executed are always an initial part of the fixed
\* order (so each ran at most once and only after all earlier ones), a
\* step is entered only while no step of the run has failed, and once a
\* step has failed the run executes no further step.
C8_StepsInOrderNoRetry ==
    /\ [](IsPrefix(trace, StepOrder))
    /\ [](pc \in Steps(StepOrder) => (failed = "none" /\ outcome = "none"))
    /\ [][(failed # "none" /\ runs' = runs) => trace' = trace]_vars

C8_Witness ==
    /\ pc = "Returned"
    /\ failed = "VerifyArtifact"
    /\ trace = SubSeq(StepOrder, 1, 8)

\* ---------------------------------------------------------------- C9
\* C9: as long as the current run has not executed Deploy, the live archive
\* holds what the run found (or what others left), and every other entry
\* of the directory is as the run found it.
C9_LiveMutatedOnlyByDeploy ==
    "Deploy" \notin Steps(trace) =>
        /\ Live = live0
        /\ \A n \in NamesOf(eggDir0) \ {SOURCE_EGG} :
               Lookup(eggDir, n) = Lookup(eggDir0, n)
        /\ NamesOf(eggDir) \subseteq NamesOf(eggDir0)

C9_Witness ==
    /\ pc = "Returned"
    /\ failed = "Backup"
    /\ "Repack" \in Steps(trace)
    /\ Live = OrigEgg
    /\ ws.egg # Live

\* --------------------------------------------------------------- C10
\* C10: a run that found no archive matching the pattern ends Aborted with
\* SourceNotFound after LocateSource alone, having created no workspace
\* and changed neither the source directory (which holds the live path)
\* nor the backup directory.
C10_NoSourceNoMutation ==
    (pc = "Returned" /\ Glob(eggDir0) = <<>>) =>
        /\ outcome = "Aborted"
        /\ reason = "SourceNotFound"
        /\ trace = <<"LocateSource">>
        /\ ~ws.created
        /\ eggDir = eggDir0
        /\ backups = backups0

C10_Witness ==
    /\ pc = "Returned"
    /\ reason = "SourceNotFound"
    /\ eggDir0 # <<>>
    /\ Glob(eggDir0) = <<>>

\* --------------------------------------------------------------- C11
\* The input tree with the module that was at uprop moved to uprop2 and the
\* compiled facade at uprop (lines 81-89 and 117-129), all else as it was.
ExpectedPatched(tree) == [tree EXCEPT !.pyc2 = tree.pyc, !.pyc = "facade"]

ValidInput(c) == c.kind = "zip" /\ c.pyc # "absent"

\* C11 as stated: every run that reaches Done on a valid input archive
\* deploys the input tree changed at uprop2 and uprop only.
C11_DeployedTreeDiffersInTwoEntries ==
    (pc = "Returned" /\ outcome = "Done" /\ ValidInput(input)) =>
        Live = ExpectedPatched(input)

\* C11 amended: with DEBUG_MODE off and an input tree that holds no
\* uprop.py, every run that reaches Done deploys the input tree changed at
\* uprop2 (now the module that was at uprop) and uprop (the compiled
\* facade) only.
C11_DeployedTreeDiffersInTwoEntriesNoDebug ==
    (pc = "Returned" /\ outcome = "Done" /\ ValidInput(input)
        /\ ~debug /\ input.py = "absent") =>
        Live = ExpectedPatched(input)

C11_Witness ==
    /\ pc = "Returned"
    /\ outcome = "Done"
    /\ ~debug
    /\ input = OrigEgg
    /\ Live = File("zip", "facade", "orig", "absent", "r1")

\* --------------------------------------------------------------- C12
\* C12: the archive Deploy is about to copy, and the live archive of every
\* run that ended Done, hold the compiled facade at uprop; and a run whose
\* tree has no uprop.pyc once VerifyArtifact has looked for it has failed
\* at VerifyArtifact, has executed neither Backup nor Deploy and has left
\* the backup directory and the live archive as it found them.
C12_DeployedArchiveHoldsArtifact ==
    /\ pc = "Deploy" => (ws.egg.kind = "zip" /\ ws.egg.pyc = "facade")
    /\ outcome = "Done" => (Live.kind = "zip" /\ Live.pyc = "facade")
    /\ ("VerifyArtifact" \in Steps(trace) /\ ws.exists /\ ws.tree.pyc = "absent") =>
          /\ failed = "VerifyArtifact"
          /\ outcome = "Aborted"
          /\ Steps(trace) \cap {"Backup", "Deploy"} = {}
          /\ backups = backups0
          /\ backupKey = NoKey
          /\ Live = live0

C12_Witness ==
    /\ pc = "Finally"
    /\ failed = "VerifyArtifact"
    /\ returncode = 0
    /\ ws.tree.pyc = "absent"
    /\ ws.tree.pyc2 = "orig"
    /\ Live = OrigEgg

\* --------------------------------------------------------------- C13
\* C13: whenever the host has called figure through the facade of a
\* patched archive, the mapping it got has concurrent_connections = 200,
\* has the keys of the mapping the original returned plus that key, and
\* agrees with the original's mapping on every other key.
C13_FigureForcesConcurrentConnections ==
    (figCall.status = "ok" /\ Live.pyc = "facade") =>
        /\ DOMAIN figCall.out = DOMAIN figCall.ret \cup {"concurrent_connections"}
        /\ figCall.out["concurrent_connections"] = 200
        /\ \A k \in DOMAIN figCall.ret \ {"concurrent_connections"} :
               figCall.out[k] = figCall.ret[k]

C13_Witness ==
    /\ figCall.status = "ok"
    /\ Live.pyc = "facade"
    /\ DOMAIN figCall.ret = {"max_users"}
    /\ figCall.out["concurrent_connections"] = 200
    /\ figCall.out["max_users"] = figCall.ret["max_users"]

\* --------------------------------------------------------------- C14
\* C14: once LocateSource has run on a listing with two or more matching
\* archives, SOURCE_EGG is the first match in listing order, the warning
\* names every match in that order, and the run has not stopped at
\* LocateSource when the selected entry is a regular file.
C14_FirstMatchSelectedWithWarning ==
    ("LocateSource" \in Steps(trace) /\ Len(Glob(eggDir0)) >= 2) =>
        /\ SOURCE_EGG = Glob(eggDir0)[1].name
        /\ Len(warning) = Len(Glob(eggDir0))
        /\ \A i \in 1..Len(warning) : warning[i] = Glob(eggDir0)[i].name
        /\ IsFile(Lookup(eggDir0, SOURCE_EGG)) =>
              (failed # "LocateSource" /\ pc # "LocateSource"
                 /\ "AcquireWorkspace" \in Steps(trace) \cup {pc})

C14_Witness ==
    /\ pc = "AcquireWorkspace"
    /\ Len(eggDir0) = 2
    /\ eggDir0[1].name = "pyovpn-1.2.4.egg"
    /\ eggDir0[2].name = "pyovpn-1.2.3.egg"
    /\ SOURCE_EGG = "pyovpn-1.2.4.egg"
    /\ warning = <<"pyovpn-1.2.4.egg", "pyovpn-1.2.3.egg">>

\* --------------------------------------------------------------- C15
\* C15: the backup file a run writes is named <archive name>.bak-
\* <YYYYMMDD-HHMMSS> after the UTC clock as read by the run, to the second.
\* The model clock starts at 2024-03-05T10:07:21Z, so the names are
\* ....bak-20240305-10072d with d = 1 plus the whole seconds elapsed.
C15_BackupNameIsUtcSecondStamp ==
    backupKey # NoKey =>
        backupKey = <<SOURCE_EGG, ".bak-", <<2, 0, 2, 4, 0, 3, 0, 5>>, "-",
                      <<1, 0, 0, 7, 2, 1 + (nowTicks \div TicksPerSecond)>>>>

\* The run of the spec's example: 2024-03-05T10:07:22Z, pyovpn-1.2.3.egg.
C15_Witness ==
    /\ pc = "Returned"
    /\ outcome = "Done"
    /\ backupKey = <<"pyovpn-1.2.3.egg", ".bak-", <<2, 0, 2, 4, 0, 3, 0, 5>>, "-",
                     <<1, 0, 0, 7, 2, 2>>>>
    /\ backupKey \in DOMAIN backups

\* --------------------------------------------------------------- C16
\* C16: a run whose Deploy step failed ends Aborted; the backup file it
\* wrote is still in the backup directory with the content the live
\* archive had at the Backup step; and from the failure on nothing in the
\* run writes the live archive's directory or the backup directory again.
C16_NoRollbackAfterDeployFailure ==
    /\ []((pc = "Returned" /\ failed = "Deploy") => outcome = "Aborted")
    /\ []((failed = "Deploy" /\ backupKey # NoKey) =>
            (backupKey \in DOMAIN backups /\ backups[backupKey] = liveAtBackup))
    /\ [][(failed = "Deploy" /\ runs' = runs) =>
            (eggDir' = eggDir /\ backups' = backups)]_vars

C16_Witness ==
    /\ pc = "Returned"
    /\ failed = "Deploy"
    /\ outcome = "Aborted"
    /\ backupKey \in DOMAIN backups
    /\ backups[backupKey] = OrigEgg
    /\ Live = Corrupt

\* --------------------------------------------------------------- C17
\* C17: with debug mode off, once the workspace has been acquired, a run
\* that was interrupted between two steps has removed its workspace by
\* the time the process exits.
C17_InterruptStillReleasesWorkspace ==
    (pc = "Returned" /\ ~debug /\ ws.created /\ interruptedAt # "none") =>
        ~ws.exists

\* --------------------------------------------------------------- C18
\* C18: with debug mode on, every run that acquired a workspace and ended
\* Done or Aborted leaves the workspace directory in place, and the
\* CleanupIntermediate step leaves the workspace, the facade source
\* module included, as it found it.
C18_DebugKeepsWorkspace ==
    /\ []((debug /\ pc = "Returned" /\ outcome \in {"Done", "Aborted"}
              /\ ws.created) => ws.exists)
    /\ [][(debug /\ pc = "CleanupIntermediate") => ws' = ws]_vars
    /\ []((debug /\ "CleanupIntermediate" \in Steps(trace) /\ ws.exists) =>
              ws.tree.py = "facade_src")

C18_Witness ==
    /\ debug
    /\ pc = "Returned"
    /\ outcome = "Aborted"
    /\ failed = "Deploy"
    /\ ws.exists
    /\ ws.tree.py = "facade_src"
    /\ ws.tree.pyc = "facade"

\* --------------------------------------------------------------- C19
\* C19: the archive copy and the extracted tree exist only inside the
\* run's workspace; in the archive directory a run leaves every entry
\* other than the live archive as it was when the run started and adds no
\* entry; in the backup directory every file that was there stays, and at
\* most one file, the run's backup, is new or rewritten.
C19_WritesConfinedToWorkspace ==
    /\ ~ws.exists => (ws.egg = Absent /\ ws.tree = Absent)
    /\ NamesOf(eggDir) \subseteq NamesOf(eggDir0)
    /\ \A n \in NamesOf(eggDir0) :
          n # SOURCE_EGG =>
              (n \in NamesOf(eggDir) /\ Lookup(eggDir, n) = Lookup(eggDir0, n))
    /\ DOMAIN backups0 \subseteq DOMAIN backups
    /\ (DOMAIN backups \ DOMAIN backups0) \subseteq {backupKey}
    /\ \A k \in DOMAIN backups0 : k # backupKey => backups[k] = backups0[k]

C19_Witness ==
    /\ pc = "Returned"
    /\ outcome = "Done"
    /\ ~debug
    /\ ~ws.exists
    /\ Live = ExpectedPatched(input)
    /\ Live # Lookup(eggDir0, SOURCE_EGG)
    /\ "notes.txt" \in NamesOf(eggDir)
    /\ Cardinality(DOMAIN backups) = Cardinality(DOMAIN backups0) + 1

====
